---- MODULE Spec2Model ----
(***************************************************************************)
(* A model of the scrypt key derivation function of dchest/scrypt.         *)
(*                                                                         *)
(* The repository holds three variants of the same file:                   *)
(*   "scrypt"  src/scrypt.go                                               *)
(*   "arr"     src/unnamed/part_000, lines 1-258   (salsa on *[64]byte)    *)
(*   "rot"     src/unnamed/part_000, lines 260-432 (salsa with rot())      *)
(*                                                                         *)
(* Bytes are naturals in 0..255 and buffers are sequences of bytes; the    *)
(* byte at Go offset k of a buffer is element k + 1 of the sequence.       *)
(* A uint32 is the pair <<lo, hi>> of its two 16-bit halves, so that every *)
(* 32-bit operation keeps its width.  A uint64 and a wide natural is a     *)
(* sequence of eight base-256 digits, least significant first.             *)
(***************************************************************************)
EXTENDS Integers, Sequences, FiniteSets, TLC

(***************************************************************************)
(* Bit operations on bytes and on 32-bit words.                            *)
(***************************************************************************)
RECURSIVE xorBits(_, _, _)
xorBits(a, b_, n) ==
    IF n = 0 THEN 0
    ELSE ((a + b_) % 2) + 2 * xorBits(a \div 2, b_ \div 2, n - 1)

RECURSIVE orBits(_, _, _)
orBits(a, b_, n) ==
    IF n = 0 THEN 0
    ELSE (IF (a % 2) + (b_ % 2) > 0 THEN 1 ELSE 0)
         + 2 * orBits(a \div 2, b_ \div 2, n - 1)

RECURSIVE andBits(_, _, _)
andBits(a, b_, n) ==
    IF n = 0 THEN 0
    ELSE ((a % 2) * (b_ % 2)) + 2 * andBits(a \div 2, b_ \div 2, n - 1)

xor8 == [a \in 0..255 |-> [b_ \in 0..255 |-> xorBits(a, b_, 8)]]

or8 == [a \in 0..255 |-> [b_ \in 0..255 |-> orBits(a, b_, 8)]]

xor16(a, b_) == 256 * xor8[a \div 256][b_ \div 256] + xor8[a % 256][b_ % 256]

or16(a, b_) == 256 * or8[a \div 256][b_ \div 256] + or8[a % 256][b_ % 256]

\* a ^ b on uint32
xor32(a, b_) == <<xor16(a[1], b_[1]), xor16(a[2], b_[2])>>

\* a | b on uint32
or32(a, b_) == <<or16(a[1], b_[1]), or16(a[2], b_[2])>>

\* a + b on uint32 (wraps modulo 2^32)
add32(a, b_) ==
    LET lo == a[1] + b_[1]
        hi == a[2] + b_[2] + (lo \div 65536)
    IN  <<lo % 65536, hi % 65536>>

\* a << k on uint32, 0 <= k < 32 (bits shifted out are lost)
shl32(a, k) ==
    IF k < 16
    THEN <<(a[1] * (2 ^ k)) % 65536,
           ((a[2] * (2 ^ k)) % 65536) + (a[1] \div (2 ^ (16 - k)))>>
    ELSE <<0, (a[1] * (2 ^ (k - 16))) % 65536>>

\* a >> k on uint32, 0 <= k < 32 (logical shift)
shr32(a, k) ==
    IF k < 16
    THEN <<(a[1] \div (2 ^ k)) + ((a[2] % (2 ^ k)) * (2 ^ (16 - k))),
           a[2] \div (2 ^ k)>>
    ELSE <<a[2] \div (2 ^ (k - 16)), 0>>

\* uint32(b) of a byte
u32(b_) == <<b_, 0>>

\* byte(v) of a uint32: the low eight bits
byte(v_) == v_[1] % 256

(***************************************************************************)
(* salsa: Salsa20/8 on a 64-byte block, one definition per source variant. *)
(* The sixteen words x0..x15 are a sequence x with x_i = x[i + 1].  Each   *)
(* statement  x_t ^= (x_a + x_b) <<< k  of the loop body is the tuple      *)
(* <<t, a, b, k>>, in the order the source executes them.                  *)
(***************************************************************************)
Variants == {"scrypt", "arr", "rot"}

\* src/scrypt.go: x4 ^= (x0+x12)<<7 | (x0+x12)>>(32-7) ...
loopBody_scrypt ==
    <<
       <<4, 0, 12, 7>>, <<8, 4, 0, 9>>, <<12, 8, 4, 13>>, <<0, 12, 8, 18>>,
       <<9, 5, 1, 7>>, <<13, 9, 5, 9>>, <<1, 13, 9, 13>>, <<5, 1, 13, 18>>,
       <<14, 10, 6, 7>>, <<2, 14, 10, 9>>, <<6, 2, 14, 13>>, <<10, 6, 2, 18>>,
       <<3, 15, 11, 7>>, <<7, 3, 15, 9>>, <<11, 7, 3, 13>>, <<15, 11, 7, 18>>,
       <<1, 0, 3, 7>>, <<2, 1, 0, 9>>, <<3, 2, 1, 13>>, <<0, 3, 2, 18>>,
       <<6, 5, 4, 7>>, <<7, 6, 5, 9>>, <<4, 7, 6, 13>>, <<5, 4, 7, 18>>,
       <<11, 10, 9, 7>>, <<8, 11, 10, 9>>, <<9, 8, 11, 13>>, <<10, 9, 8, 18>>,
       <<12, 15, 14, 7>>, <<13, 12, 15, 9>>, <<14, 13, 12, 13>>, <<15, 14, 13, 18>>
    >>

\* part_000 (arr): u := x0 + x12; x4 ^= u<<7 | u>>(32-7) ...
loopBody_arr ==
    <<
       <<4, 0, 12, 7>>, <<8, 4, 0, 9>>, <<12, 8, 4, 13>>, <<0, 12, 8, 18>>,
       <<9, 5, 1, 7>>, <<13, 9, 5, 9>>, <<1, 13, 9, 13>>, <<5, 1, 13, 18>>,
       <<14, 10, 6, 7>>, <<2, 14, 10, 9>>, <<6, 2, 14, 13>>, <<10, 6, 2, 18>>,
       <<3, 15, 11, 7>>, <<7, 3, 15, 9>>, <<11, 7, 3, 13>>, <<15, 11, 7, 18>>,
       <<1, 0, 3, 7>>, <<2, 1, 0, 9>>, <<3, 2, 1, 13>>, <<0, 3, 2, 18>>,
       <<6, 5, 4, 7>>, <<7, 6, 5, 9>>, <<4, 7, 6, 13>>, <<5, 4, 7, 18>>,
       <<11, 10, 9, 7>>, <<8, 11, 10, 9>>, <<9, 8, 11, 13>>, <<10, 9, 8, 18>>,
       <<12, 15, 14, 7>>, <<13, 12, 15, 9>>, <<14, 13, 12, 13>>, <<15, 14, 13, 18>>
    >>

\* part_000 (rot): x[4] ^= rot(x[0]+x[12], 7) ...
loopBody_rot ==
    <<
       <<4, 0, 12, 7>>, <<8, 4, 0, 9>>, <<12, 8, 4, 13>>, <<0, 12, 8, 18>>,
       <<9, 5, 1, 7>>, <<13, 9, 5, 9>>, <<1, 13, 9, 13>>, <<5, 1, 13, 18>>,
       <<14, 10, 6, 7>>, <<2, 14, 10, 9>>, <<6, 2, 14, 13>>, <<10, 6, 2, 18>>,
       <<3, 15, 11, 7>>, <<7, 3, 15, 9>>, <<11, 7, 3, 13>>, <<15, 11, 7, 18>>,
       <<1, 0, 3, 7>>, <<2, 1, 0, 9>>, <<3, 2, 1, 13>>, <<0, 3, 2, 18>>,
       <<6, 5, 4, 7>>, <<7, 6, 5, 9>>, <<4, 7, 6, 13>>, <<5, 4, 7, 18>>,
       <<11, 10, 9, 7>>, <<8, 11, 10, 9>>, <<9, 8, 11, 13>>, <<10, 9, 8, 18>>,
       <<12, 15, 14, 7>>, <<13, 12, 15, 9>>, <<14, 13, 12, 13>>, <<15, 14, 13, 18>>
    >>

\* x_t ^= (x_a+x_b)<<k | (x_a+x_b)>>(32-k)
stmt_scrypt(x_, op) ==
    [x_ EXCEPT ![op[1] + 1] =
        xor32(x_[op[1] + 1],
              or32(shl32(add32(x_[op[2] + 1], x_[op[3] + 1]), op[4]),
                   shr32(add32(x_[op[2] + 1], x_[op[3] + 1]), 32 - op[4])))]

\* u = x_a + x_b; x_t ^= u<<k | u>>(32-k)
stmt_arr(x_, op) ==
    LET u == add32(x_[op[2] + 1], x_[op[3] + 1])
    IN  [x_ EXCEPT ![op[1] + 1] =
            xor32(x_[op[1] + 1], or32(shl32(u, op[4]), shr32(u, 32 - op[4])))]

\* rot with the bits shifted out lost: a << b
rot_noWrap(a, b_) == shl32(a, b_)

\* func rot(a, b uint32) uint32
rot(a, b_) == or32(shl32(a, b_), shr32(a, 32 - b_))

\* x[t] ^= rot(x[a]+x[b], k)
stmt_rot(x_, op) ==
    [x_ EXCEPT ![op[1] + 1] =
        xor32(x_[op[1] + 1], rot(add32(x_[op[2] + 1], x_[op[3] + 1]), op[4]))]

\* the statements of one pass through the loop body, from statement k on
RECURSIVE body_scrypt(_, _)
body_scrypt(x_, k) ==
    IF Len(x_) = 16 /\ k <= Len(loopBody_scrypt)
    THEN body_scrypt(stmt_scrypt(x_, loopBody_scrypt[k]), k + 1)
    ELSE x_

RECURSIVE body_arr(_, _)
body_arr(x_, k) ==
    IF Len(x_) = 16 /\ k <= Len(loopBody_arr)
    THEN body_arr(stmt_arr(x_, loopBody_arr[k]), k + 1)
    ELSE x_

RECURSIVE body_rot(_, _)
body_rot(x_, k) ==
    IF Len(x_) = 16 /\ k <= Len(loopBody_rot)
    THEN body_rot(stmt_rot(x_, loopBody_rot[k]), k + 1)
    ELSE x_

\* for i := 0; i < 8; i += 2 { ... }
RECURSIVE loop_scrypt(_, _)
loop_scrypt(x_, i_) ==
    IF Len(x_) = 16 /\ i_ < 8 THEN loop_scrypt(body_scrypt(x_, 1), i_ + 2) ELSE x_

RECURSIVE loop_arr(_, _)
loop_arr(x_, i_) ==
    IF Len(x_) = 16 /\ i_ < 8 THEN loop_arr(body_arr(x_, 1), i_ + 2) ELSE x_

RECURSIVE loop_rot(_, _)
loop_rot(x_, i_) ==
    IF Len(x_) = 16 /\ i_ < 8 THEN loop_rot(body_rot(x_, 1), i_ + 2) ELSE x_

\* uint32(b[j]) | uint32(b[j+1])<<8 | uint32(b[j+2])<<16 | uint32(b[j+3])<<24
word(b_, j) ==
    or32(or32(or32(u32(b_[j + 1]), shl32(u32(b_[j + 2]), 8)),
              shl32(u32(b_[j + 3]), 16)),
         shl32(u32(b_[j + 4]), 24))

\* byte(v>>0), byte(v>>8), byte(v>>16), byte(v>>24)
bytes(v_) ==
    <<byte(shr32(v_, 0)), byte(shr32(v_, 8)), byte(shr32(v_, 16)), byte(shr32(v_, 24))>>

\* binary.LittleEndian.Uint32(b[off:])
Uint32(b_, off) ==
    <<b_[off + 1] + 256 * b_[off + 2], b_[off + 3] + 256 * b_[off + 4]>>

\* binary.LittleEndian.PutUint32: the four bytes written for v
PutUint32(v_) == <<v_[1] % 256, v_[1] \div 256, v_[2] % 256, v_[2] \div 256>>

\* the sixteen 4-byte groups of ws, concatenated into a 64-byte block
join16(g) ==
    g[1] \o g[2] \o g[3] \o g[4] \o g[5] \o g[6] \o g[7] \o g[8] \o
    g[9] \o g[10] \o g[11] \o g[12] \o g[13] \o g[14] \o g[15] \o g[16]

\* src/scrypt.go salsa: w[i] += x_i, then b[j+k] = byte(w[i] >> 8k)
salsa_scrypt(b_) ==
    LET w == [i_ \in 1..16 |-> word(b_, (i_ - 1) * 4)] \o <<>>
        x_ == loop_scrypt(w, 0)
    IN  join16([i_ \in 1..16 |-> bytes(add32(w[i_], x_[i_]))])

\* part_000 (arr) salsa: x_i += w_i, then b[4i+k] = byte(x_i >> 8k)
salsa_arr(b_) ==
    LET w == [i_ \in 1..16 |-> word(b_, (i_ - 1) * 4)] \o <<>>
        x_ == loop_arr(w, 0)
    IN  join16([i_ \in 1..16 |-> bytes(add32(x_[i_], w[i_]))])

\* part_000 (rot) salsa: PutUint32(b[i*4:], v+x[i])
salsa_rot(b_) ==
    LET w == [i_ \in 1..16 |-> Uint32(b_, (i_ - 1) * 4)] \o <<>>
        x_ == loop_rot(w, 0)
    IN  join16([i_ \in 1..16 |-> PutUint32(add32(w[i_], x_[i_]))])

salsa(variant_, b_) ==
    CASE variant_ = "scrypt" -> salsa_scrypt(b_)
      [] variant_ = "arr"    -> salsa_arr(b_)
      [] variant_ = "rot"    -> salsa_rot(b_)

(***************************************************************************)
(* Wide naturals: sequences of base-256 digits, least significant first.   *)
(* uint64 arithmetic keeps eight digits (it wraps modulo 2^64).            *)
(***************************************************************************)
and8 == [a \in 0..255 |-> [b_ \in 0..255 |-> andBits(a, b_, 8)]]

\* the n low digits of the natural k
RECURSIVE digits(_, _)
digits(k, n) == IF n = 0 THEN <<>> ELSE <<k % 256>> \o digits(k \div 256, n - 1)

\* the value of the digits d (it must fit a 32-bit integer)
RECURSIVE value(_)
value(d) == IF Len(d) = 0 THEN 0 ELSE d[1] + 256 * value(Tail(d))

\* digit k (from 0) of the product column sums of a and b, with its carry in
RECURSIVE column(_, _, _, _)
column(a, b_, k, j) ==
    IF j > k THEN 0
    ELSE (IF j < Len(a) /\ k - j < Len(b_) THEN a[j + 1] * b_[k - j + 1] ELSE 0)
         + column(a, b_, k, j + 1)

\* the n low digits of a * b
RECURSIVE mulDigits(_, _, _, _, _)
mulDigits(a, b_, n, k, carry) ==
    IF k = n THEN <<>>
    ELSE LET s == column(a, b_, k, 0) + carry
         IN  <<s % 256>> \o mulDigits(a, b_, n, k + 1, s \div 256)

\* a >= b for digit sequences of the same length
RECURSIVE geDigits(_, _, _)
geDigits(a, b_, k) ==
    IF k = 0 THEN TRUE
    ELSE IF a[k] # b_[k] THEN a[k] > b_[k]
    ELSE geDigits(a, b_, k - 1)

\* uint64(n) of a Go int: negative n is sign-extended (two's complement)
uint64(n) ==
    IF n >= 0 THEN digits(n, 8)
    ELSE LET m == digits((-n) - 1, 8) IN [k \in 1..8 |-> 255 - m[k]] \o <<>>

\* a * b on uint64
mul64(a, b_) == mulDigits(a, b_, 8, 0, 0)

\* a & b on uint64
and64(a, b_) == [k \in 1..8 |-> and8[a[k]][b_[k]]] \o <<>>

\* a & b on non-negative ints
and31(a, b_) == value(SubSeq(and64(uint64(a), uint64(b_)), 1, 4))

\* Go's a / b on ints, b # 0: the quotient truncated toward zero
quo(a, b_) ==
    LET abs(z) == IF z < 0 THEN -z ELSE z
        q == abs(a) \div abs(b_)
    IN  IF (a < 0) = (b_ < 0) THEN q ELSE -q

(***************************************************************************)
(* Key: parameter validation.                                              *)
(***************************************************************************)
maxInt == 2147483647

\* 1<<30 as a uint64
limit30 == <<0, 0, 0, 64, 0, 0, 0, 0>>

\* the first if of Key
badN(variant_, N_) ==
    IF variant_ = "rot"
    THEN N_ <= 0 \/ and31(N_, N_ - 1) # 0
    ELSE N_ <= 1 \/ and31(N_, N_ - 1) # 0

\* the second if with a wrong divisor in its last test: N > maxInt/64/r
tooLarge_wrongN(r_, p_, N_) ==
    IF geDigits(mul64(uint64(r_), uint64(p_)), limit30, 8) THEN "yes"
    ELSE IF p_ = 0 THEN "divideByZero"
    ELSE IF r_ > quo(maxInt \div 128, p_) THEN "yes"
    ELSE IF r_ > maxInt \div 256 THEN "yes"
    ELSE IF r_ = 0 THEN "divideByZero"
    ELSE IF N_ > quo(maxInt \div 64, r_) THEN "yes"
    ELSE "no"

\* the second if of Key: the || chain is evaluated left to right and stops
\* at the first true operand; a zero divisor reached on the way panics
\* (runtime error: integer divide by zero).
tooLarge(r_, p_, N_) ==
    IF geDigits(mul64(uint64(r_), uint64(p_)), limit30, 8) THEN "yes"
    ELSE IF p_ = 0 THEN "divideByZero"
    ELSE IF r_ > quo(maxInt \div 128, p_) THEN "yes"
    ELSE IF r_ > maxInt \div 256 THEN "yes"
    ELSE IF r_ = 0 THEN "divideByZero"
    ELSE IF N_ > quo(maxInt \div 128, r_) THEN "yes"
    ELSE "no"

\* a validation that also looks at keyLen: it rejects keyLen = 0
validate_keyLen(variant_, password_, salt_, N_, r_, p_, keyLen_) ==
    IF badN(variant_, N_) THEN "errN"
    ELSE CASE tooLarge(r_, p_, N_) = "yes"   -> "errLarge"
           [] tooLarge(r_, p_, N_) = "divideByZero" -> "divideByZero"
           [] keyLen_ = 0                    -> "errLarge"
           [] OTHER                          -> "alloc"

\* the outcome of the two ifs of Key(password, salt, N, r, p, keyLen)
validate(variant_, password_, salt_, N_, r_, p_, keyLen_) ==
    IF badN(variant_, N_) THEN "errN"
    ELSE CASE tooLarge(r_, p_, N_) = "yes"   -> "errLarge"
           [] tooLarge(r_, p_, N_) = "divideByZero" -> "divideByZero"
           [] OTHER                          -> "alloc"

errorText(outcome) ==
    CASE outcome = "errN"     -> "scrypt: N must be > 1 and a power of 2"
      [] outcome = "errLarge" -> "scrypt: parameters are too large"
      [] OTHER                -> ""

(***************************************************************************)
(* Buffers.  A Go slice buf[off:] is the pair of its buffer and offset.    *)
(***************************************************************************)
min(a, b_) == IF a < b_ THEN a ELSE b_

\* make([]byte, n)
make(n) == [k \in 1..n |-> 0] \o <<>>

\* buf with the bytes from offset off on replaced by data
put(buf, off, data) ==
    SubSeq(buf, 1, off) \o data \o SubSeq(buf, off + Len(data) + 1, Len(buf))

\* blockCopy(dst[doff:], src[soff:], n): copy(dst, src[:n]) copies as many
\* bytes as fit in dst
blockCopy(dst, doff, src, soff, n) ==
    put(dst, doff, SubSeq(src, soff + 1, soff + min(n, Len(dst) - doff)))

\* blockCopy does not panic: both slice expressions and src[:n] are in range
blockCopyOK(dst, doff, src, soff, n) ==
    /\ doff \in 0..Len(dst)
    /\ soff \in 0..Len(src)
    /\ n \in 0..(Len(src) - soff)

\* blockXOR(dst[doff:], src[soff:], n): dst[i] ^= v for i, v in src[:n]
blockXOR(dst, doff, src, soff, n) ==
    put(dst, doff, [k \in 1..n |-> xor8[dst[doff + k]][src[soff + k]]] \o <<>>)

\* blockXOR does not panic: src[:n] is in range and so is every dst[i]
blockXOROK(dst, doff, src, soff, n) ==
    /\ doff \in 0..Len(dst)
    /\ soff \in 0..Len(src)
    /\ n \in 0..(Len(src) - soff)
    /\ n <= Len(dst) - doff

(***************************************************************************)
(* pbkdf2.Key(password, salt, iter, keyLen, sha256.New) is a collaborator  *)
(* outside the repository.  It is modelled by a deterministic stand-in     *)
(* that returns keyLen bytes depending on password, salt and iter.         *)
(***************************************************************************)
RECURSIVE digest(_, _, _)
digest(s, lo, hi) ==
    IF lo > hi THEN 1
    ELSE IF lo = hi THEN ((s[lo] + 1) * ((lo % 251) + 3)) % 65521
    ELSE LET mid == (lo + hi) \div 2
         IN  (31 * digest(s, lo, mid) + digest(s, mid + 1, hi) + 7) % 65521

pbkdf2Key(password_, salt_, iter, keyLen_) ==
    LET seed == (5 * digest(password_, 1, Len(password_)) +
                 3 * digest(salt_, 1, Len(salt_)) + iter) % 65521
    IN  [k \in 1..keyLen_ |->
            (((seed + 1) * (2 * (k % 1021) + 1)) \div 5 + 89 * k) % 256] \o <<>>

(***************************************************************************)
(* blockMix(b, y, r).  Both arguments are slices of the buffer xy: b is    *)
(* xy[0:] and y is xy[yoff:].                                              *)
(***************************************************************************)
\* the offset in b[(2*r-1)*64:]
lastOffset(r_) == (2 * r_ - 1) * 64

\* x := make([]byte, 64); blockCopy(x, b[(2*r-1)*64:], 64)
bmFirst(xy_, r_) == blockCopy(make(64), 0, xy_, lastOffset(r_), 64)

\* blockXOR(x, b[i*64:], 64); salsa(x)
bmSalsa(variant_, xy_, x_, i_) == salsa(variant_, blockXOR(x_, 0, xy_, i_ * 64, 64))

\* blockCopy(y[i*64:], x, 64)
bmStore(xy_, yoff, x_, i_) == blockCopy(xy_, yoff + i_ * 64, x_, 0, 64)

\* for i := 0; i < 2*r; i++ { ... }: <<xy, x>> after the loop
RECURSIVE bmLoop(_, _, _, _, _, _)
bmLoop(variant_, xy_, yoff, x_, i_, r_) ==
    IF Len(x_) = 64 /\ Len(xy_) > 0 /\ i_ < 2 * r_
    THEN LET t == bmSalsa(variant_, xy_, x_, i_)
         IN  bmLoop(variant_, bmStore(xy_, yoff, t, i_), yoff, t, i_ + 1, r_)
    ELSE <<xy_, x_>>

\* for i := 0; i < r; i++ { blockCopy(b[i*64:], y[(i*2)*64:], 64) }
RECURSIVE bmEven(_, _, _, _)
bmEven(xy_, yoff, i_, r_) ==
    IF Len(xy_) > 0 /\ i_ < r_
    THEN bmEven(blockCopy(xy_, i_ * 64, xy_, yoff + (i_ * 2) * 64, 64), yoff, i_ + 1, r_)
    ELSE xy_

\* for i := 0; i < r; i++ { blockCopy(b[(i+r)*64:], y[(i*2+1)*64:], 64) }
RECURSIVE bmOdd(_, _, _, _)
bmOdd(xy_, yoff, i_, r_) ==
    IF Len(xy_) > 0 /\ i_ < r_
    THEN bmOdd(blockCopy(xy_, (i_ + r_) * 64, xy_, yoff + (i_ * 2 + 1) * 64, 64),
               yoff, i_ + 1, r_)
    ELSE xy_

\* blockMix without the permutation: Y is copied to b as it is
bmPermute_plain(xy_, yoff, r_) == blockCopy(xy_, 0, xy_, yoff, 128 * r_)

\* the two copy loops that end blockMix
bmPermute(xy_, yoff, r_) == bmOdd(bmEven(xy_, yoff, 0, r_), yoff, 0, r_)

\* xy after blockMix(xy, xy[yoff:], r)
blockMix(variant_, xy_, yoff, r_) ==
    bmPermute(bmLoop(variant_, xy_, yoff, bmFirst(xy_, r_), 0, r_)[1], yoff, r_)

(***************************************************************************)
(* integerify and smix(b, r, N, v, xy) with b the slice buf[boff:].        *)
(***************************************************************************)
\* integerify reading the first 64-byte sub-block instead of the last
integerify_first(xy_, r_) == SubSeq(xy_, 1, 8)

\* binary.LittleEndian.Uint64(b[(2*r-1)*64:]): the uint64 of eight bytes
integerify(xy_, r_) == SubSeq(xy_, lastOffset(r_) + 1, lastOffset(r_) + 8)

\* a Y that starts in the middle of X: y := xy[64*r:]
yOffset_half(r_) == 64 * r_

\* y := xy[128*r:]
yOffset(r_) == 128 * r_

\* smix loading only the first half of the block: blockCopy(x, b, 64*r)
smixLoad_half(xy_, buf, boff, r_) == blockCopy(xy_, 0, buf, boff, 64 * r_)

\* blockCopy(x, b, 128*r)
smixLoad(xy_, buf, boff, r_) == blockCopy(xy_, 0, buf, boff, 128 * r_)

\* the offset in v[i*(128*r):] and v[j*(128*r):]
vOffset(i_, r_) == i_ * (128 * r_)

\* blockCopy(v[i*(128*r):], x, 128*r)
smixSave(v_, xy_, i_, r_) == blockCopy(v_, vOffset(i_, r_), xy_, 0, 128 * r_)

\* j := int(integerify(x, r) & uint64(N-1))
smixIndex(xy_, r_, N_) ==
    value(SubSeq(and64(integerify(xy_, r_), uint64(N_ - 1)), 1, 4))

\* blockXOR(x, v[j*(128*r):], 128*r)
smixXor(xy_, v_, j, r_) == blockXOR(xy_, 0, v_, vOffset(j, r_), 128 * r_)

\* blockCopy(b, x, 128*r)
smixStore(buf, boff, xy_, r_) == blockCopy(buf, boff, xy_, 0, 128 * r_)

\* first loop of smix: <<v, xy>> after it
RECURSIVE smixFill(_, _, _, _, _, _)
smixFill(variant_, v_, xy_, i_, r_, N_) ==
    IF Len(v_) > 0 /\ Len(xy_) > 0 /\ i_ < N_
    THEN smixFill(variant_, smixSave(v_, xy_, i_, r_),
                  blockMix(variant_, xy_, yOffset(r_), r_), i_ + 1, r_, N_)
    ELSE <<v_, xy_>>

\* second loop of smix: xy after it
RECURSIVE smixMix(_, _, _, _, _, _)
smixMix(variant_, v_, xy_, i_, r_, N_) ==
    IF Len(xy_) > 0 /\ i_ < N_
    THEN smixMix(variant_, v_,
                 blockMix(variant_, smixXor(xy_, v_, smixIndex(xy_, r_, N_), r_),
                          yOffset(r_), r_),
                 i_ + 1, r_, N_)
    ELSE xy_

\* the buffers after smix(buf[boff:], r, N, v, xy)
smix(variant_, buf, boff, r_, N_, v_, xy_) ==
    LET filled == smixFill(variant_, v_, smixLoad(xy_, buf, boff, r_), 0, r_, N_)
        mixed  == smixMix(variant_, filled[1], filled[2], 0, r_, N_)
    IN  [b |-> smixStore(buf, boff, mixed, r_), v |-> filled[1], xy |-> mixed]

(***************************************************************************)
(* The inputs of one call of Key.                                          *)
(***************************************************************************)
MaxN == 7
MaxR == 2
MaxP == 2
MaxKeyLen == 33
MaxMem == 1536

\* small parameters, valid and invalid: the accepted ones are run to the end
\* when xy, v and b together take at most MaxMem bytes
Grid == (0..MaxN) \X (-1..MaxR) \X (-1..MaxP)

\* parameters at the limits of the second if of Key
Edge ==
    ({-2, 2, 8388608} \X {8388607, 8388608, 16777215, 268435456}
        \X {1, 4, 16777215, 1073741824})
    \cup ({8388608, 16777216, 1073741824} \X {1, 2} \X {1})
    \cup ({2} \X {1} \X {4194304, 16777215, 16777216})

Params == Grid \cup Edge

\* <<password, salt>>
Creds == { << <<>>, <<>> >>, << <<112, 119>>, <<78>> >> }

KeyLens == {0, MaxKeyLen}

\* <<password, salt, keyLen>> of the calls made
Inputs == { << <<>>, <<>>, 0 >>, << <<112, 119>>, <<78>>, MaxKeyLen >> }

(***************************************************************************)
(* State: the arguments of the call, the three buffers, the position in    *)
(* Key / smix / blockMix, the result, and a record of what was done.       *)
(***************************************************************************)
VARIABLES
    variant, password, salt, N, r, p, keyLen,   \* the call
    xy, v, b,                                   \* buffers (<<>>: not allocated)
    pc,                                         \* position
    i,                                          \* loop index of Key
    si,                                         \* loop index of smix
    ret,                                        \* the smix loop to return to
    bi,                                         \* loop index of blockMix
    x,                                          \* x of blockMix
    key, err,                                   \* the values returned
    calls,                                      \* calls of pbkdf2.Key so far
    B0,                                         \* b as the first pbkdf2.Key left it
    vlog,                                       \* accesses to v in this smix
    xIn,                                        \* X when this smix iteration began
    bmIn,                                       \* X when this blockMix began
    salsaIn,                                    \* argument of the last salsa
    acc                                         \* byte ranges touched by the last step

args == <<variant, password, salt, N, r, p, keyLen>>
bufs == <<xy, v, b>>
ctl  == <<pc, i, si, ret, bi, x>>
res  == <<key, err>>
hist == <<calls, B0, vlog, xIn, bmIn, salsaIn, acc>>
vars == <<args, bufs, ctl, res, hist>>

nil == [isNil |-> TRUE, bytes |-> <<>>]

slice(bytes_) == [isNil |-> FALSE, bytes |-> bytes_]

\* bytes lo .. hi-1 of the buffer behind view are read or written
access(op, view, lo, n) == [op |-> op, view |-> view, lo |-> lo, hi |-> lo + n]

\* X, the first 128*r bytes of xy
X(xy_, r_) == SubSeq(xy_, 1, 128 * r_)

Init ==
    /\ variant \in Variants
    /\ \E c \in Inputs : password = c[1] /\ salt = c[2] /\ keyLen = c[3]
    /\ \E t \in Params : N = t[1] /\ r = t[2] /\ p = t[3]
    /\ xy = <<>> /\ v = <<>> /\ b = <<>>
    /\ pc = "Key"
    /\ i = 0 /\ si = 0 /\ ret = "" /\ bi = 0 /\ x = <<>>
    /\ key = nil /\ err = ""
    /\ calls = <<>> /\ B0 = <<>> /\ vlog = <<>>
    /\ xIn = <<>> /\ bmIn = <<>> /\ salsaIn = <<>> /\ acc = {}

\* an index or slice bound out of range: the call panics
OutOfRange ==
    /\ pc' = "outOfRange"
    /\ acc' = {}
    /\ UNCHANGED <<args, bufs, i, si, ret, bi, x, res, calls, B0, vlog, xIn,
                   bmIn, salsaIn>>

\* Key: the two ifs
KeyValidate ==
    /\ pc = "Key"
    /\ LET outcome == validate(variant, password, salt, N, r, p, keyLen)
       IN  /\ pc' = IF outcome \in {"errN", "errLarge"} THEN "return" ELSE outcome
           /\ err' = errorText(outcome)
           /\ key' = nil
    /\ acc' = {}
    /\ UNCHANGED <<args, bufs, i, si, ret, bi, x, calls, B0, vlog, xIn, bmIn,
                   salsaIn>>

\* Key: xy, v := make(...), make(...); b := pbkdf2.Key(...)
KeyAlloc ==
    /\ pc = "alloc"
    /\ N + p + 2 <= MaxMem \div (128 * r)
    /\ xy' = make(256 * r)
    /\ v' = make(128 * r * N)
    /\ b' = pbkdf2Key(password, salt, 1, p * 128 * r)
    /\ calls' = Append(calls, [password |-> password, salt |-> salt, iter |-> 1,
                               keyLen |-> p * 128 * r])
    /\ B0' = b'
    /\ i' = 0
    /\ pc' = "loop"
    /\ acc' = {}
    /\ UNCHANGED <<args, si, ret, bi, x, res, vlog, xIn, bmIn, salsaIn>>

\* b[i*128*r:] in Key
keyBlock(i_, r_) == i_ * 128 * r_

\* Key: smix(b[i*128*r:], ...) is entered; smix: blockCopy(x, b, 128*r)
SmixEnter ==
    /\ pc = "loop" /\ i < p
    /\ IF /\ yOffset(r) \in 0..Len(xy)
          /\ blockCopyOK(xy, 0, b, keyBlock(i, r), 128 * r)
       THEN /\ xy' = smixLoad(xy, b, keyBlock(i, r), r)
            /\ si' = 0
            /\ vlog' = <<>>
            /\ pc' = "fill"
            /\ acc' = {access("r", "B", keyBlock(i, r), 128 * r),
                       access("w", "X", 0, 128 * r)}
            /\ UNCHANGED <<args, v, b, i, ret, bi, x, res, calls, B0, xIn, bmIn,
                           salsaIn>>
       ELSE OutOfRange

\* the bytes blockMix touches on entry
bmFirstAcc(r_) == {access("r", "X", lastOffset(r_), 64)}

\* blockMix entry does not panic
bmFirstOK(xy_, r_) == blockCopyOK(make(64), 0, xy_, lastOffset(r_), 64)

\* smix, first loop: blockCopy(v[i*(128*r):], x, 128*r); blockMix is entered
SmixFillStep ==
    /\ pc = "fill" /\ si < N
    /\ IF blockCopyOK(v, vOffset(si, r), xy, 0, 128 * r) /\ bmFirstOK(xy, r)
       THEN /\ v' = smixSave(v, xy, si, r)
            /\ vlog' = Append(vlog, <<"w", si>>)
            /\ xIn' = X(xy, r)
            /\ bmIn' = X(xy, r)
            /\ x' = bmFirst(xy, r)
            /\ bi' = 0
            /\ ret' = "fill"
            /\ pc' = "blockMix"
            /\ acc' = {access("w", "V", vOffset(si, r), 128 * r),
                       access("r", "X", 0, 128 * r)} \cup bmFirstAcc(r)
            /\ UNCHANGED <<args, xy, b, i, si, res, calls, B0, salsaIn>>
       ELSE OutOfRange

\* smix: the first loop ends
SmixFillExit ==
    /\ pc = "fill" /\ si >= N
    /\ si' = 0
    /\ pc' = "mix"
    /\ acc' = {}
    /\ UNCHANGED <<args, bufs, i, ret, bi, x, res, calls, B0, vlog, xIn, bmIn,
                   salsaIn>>

\* smix, second loop: j := ...; blockXOR(x, v[j*(128*r):], 128*r); blockMix
\* is entered
SmixMixStep ==
    /\ pc = "mix" /\ si < N
    /\ IF lastOffset(r) + 8 \in 0..Len(xy)
       THEN LET j == smixIndex(xy, r, N)
            IN  IF /\ blockXOROK(xy, 0, v, vOffset(j, r), 128 * r)
                   /\ bmFirstOK(xy, r)
                THEN /\ xy' = smixXor(xy, v, j, r)
                     /\ vlog' = Append(vlog, <<"r", j>>)
                     /\ xIn' = X(xy, r)
                     /\ bmIn' = X(xy', r)
                     /\ x' = bmFirst(xy', r)
                     /\ bi' = 0
                     /\ ret' = "mix"
                     /\ pc' = "blockMix"
                     /\ acc' = {access("integerify", "X", lastOffset(r), 8),
                                access("r", "V", vOffset(j, r), 128 * r),
                                access("w", "X", 0, 128 * r)} \cup bmFirstAcc(r)
                     /\ UNCHANGED <<args, v, b, i, si, res, calls, B0, salsaIn>>
                ELSE OutOfRange
       ELSE OutOfRange

\* smix: the second loop ends; blockCopy(b, x, 128*r); back in Key, i++
SmixExit ==
    /\ pc = "mix" /\ si >= N
    /\ IF blockCopyOK(b, keyBlock(i, r), xy, 0, 128 * r)
       THEN /\ b' = smixStore(b, keyBlock(i, r), xy, r)
            /\ i' = i + 1
            /\ pc' = "loop"
            /\ acc' = {access("r", "X", 0, 128 * r),
                       access("w", "B", keyBlock(i, r), 128 * r)}
            /\ UNCHANGED <<args, xy, v, si, ret, bi, x, res, calls, B0, vlog, xIn,
                           bmIn, salsaIn>>
       ELSE OutOfRange

\* blockMix, first loop: blockXOR(x, b[i*64:], 64); salsa(x);
\* blockCopy(y[i*64:], x, 64)
BlockMixStep ==
    /\ pc = "blockMix" /\ bi < 2 * r
    /\ IF /\ blockXOROK(x, 0, xy, bi * 64, 64)
          /\ blockCopyOK(xy, yOffset(r) + bi * 64, x, 0, 64)
       THEN /\ salsaIn' = blockXOR(x, 0, xy, bi * 64, 64)
            /\ x' = bmSalsa(variant, xy, x, bi)
            /\ xy' = bmStore(xy, yOffset(r), x', bi)
            /\ bi' = bi + 1
            /\ acc' = {access("r", "X", bi * 64, 64),
                       access("w", "Y", yOffset(r) + bi * 64, 64)}
            /\ UNCHANGED <<args, v, b, pc, i, si, ret, res, calls, B0, vlog, xIn,
                           bmIn>>
       ELSE OutOfRange

\* the bytes the two copy loops of blockMix touch
bmPermuteAcc(yoff, r_) ==
    UNION { {access("r", "Y", yoff + (k * 2) * 64, 64),
             access("w", "X", k * 64, 64),
             access("r", "Y", yoff + (k * 2 + 1) * 64, 64),
             access("w", "X", (k + r_) * 64, 64)} : k \in 0..(r_ - 1) }

\* the two copy loops of blockMix do not panic
bmPermuteOK(xy_, yoff, r_) ==
    \A k \in 0..(r_ - 1) :
        /\ blockCopyOK(xy_, k * 64, xy_, yoff + (k * 2) * 64, 64)
        /\ blockCopyOK(xy_, (k + r_) * 64, xy_, yoff + (k * 2 + 1) * 64, 64)

\* blockMix: the two copy loops; back in smix, i++
BlockMixExit ==
    /\ pc = "blockMix" /\ bi >= 2 * r
    /\ IF bmPermuteOK(xy, yOffset(r), r)
       THEN /\ xy' = bmPermute(xy, yOffset(r), r)
            /\ si' = si + 1
            /\ pc' = ret
            /\ acc' = bmPermuteAcc(yOffset(r), r)
            /\ UNCHANGED <<args, v, b, i, ret, bi, x, res, calls, B0, vlog, xIn,
                           bmIn, salsaIn>>
       ELSE OutOfRange

\* Key deriving the key from the first block of b only
KeyReturn_firstBlock ==
    /\ pc = "loop" /\ i >= p
    /\ key' = slice(pbkdf2Key(password, SubSeq(b, 1, 128 * r), 1, keyLen))
    /\ err' = ""
    /\ calls' = Append(calls, [password |-> password,
                               salt |-> SubSeq(b, 1, 128 * r), iter |-> 1,
                               keyLen |-> keyLen])
    /\ pc' = "return"
    /\ acc' = {}
    /\ UNCHANGED <<args, bufs, i, si, ret, bi, x, B0, vlog, xIn, bmIn, salsaIn>>

\* Key: return pbkdf2.Key(password, b, 1, keyLen, sha256.New), nil
KeyReturn ==
    /\ pc = "loop" /\ i >= p
    /\ key' = slice(pbkdf2Key(password, b, 1, keyLen))
    /\ err' = ""
    /\ calls' = Append(calls, [password |-> password, salt |-> b, iter |-> 1,
                               keyLen |-> keyLen])
    /\ pc' = "return"
    /\ acc' = {}
    /\ UNCHANGED <<args, bufs, i, si, ret, bi, x, B0, vlog, xIn, bmIn, salsaIn>>

Next ==
    \/ KeyValidate
    \/ KeyAlloc
    \/ SmixEnter
    \/ SmixFillStep
    \/ SmixFillExit
    \/ SmixMixStep
    \/ SmixExit
    \/ BlockMixStep
    \/ BlockMixExit
    \/ KeyReturn

Spec == Init /\ [][Next]_vars

(***************************************************************************)
(* The algorithm as the specification states it (Salsa20/8, BlockMix,      *)
(* Integerify, SMix), written independently of the code above.             *)
(***************************************************************************)
\* 32-bit left rotation
rotl32(w, k) ==
    LET a == IF k < 16 THEN w ELSE <<w[2], w[1]>>
        s == k % 16
    IN  <<((a[1] * (2 ^ s)) % 65536) + (a[2] \div (2 ^ (16 - s))),
          ((a[2] * (2 ^ s)) % 65536) + (a[1] \div (2 ^ (16 - s)))>>

\* sixteen little-endian words of a 64-byte block
SpecDecode(blk) ==
    [k \in 1..16 |-> <<blk[4 * k - 3] + 256 * blk[4 * k - 2],
                       blk[4 * k - 1] + 256 * blk[4 * k]>>] \o <<>>

\* the 64 bytes of sixteen words, little-endian
RECURSIVE SpecEncode(_)
SpecEncode(ws) ==
    IF Len(ws) = 0 THEN <<>>
    ELSE <<ws[1][1] % 256, ws[1][1] \div 256, ws[1][2] % 256, ws[1][2] \div 256>>
         \o SpecEncode(Tail(ws))

\* the quarter-round on the words with indices t = <<a, b, c, d>>
QuarterRound(xs, t) ==
    LET x1 == [xs EXCEPT ![t[2] + 1] =
                  xor32(@, rotl32(add32(xs[t[1] + 1], xs[t[4] + 1]), 7))]
        x2 == [x1 EXCEPT ![t[3] + 1] =
                  xor32(@, rotl32(add32(x1[t[2] + 1], x1[t[1] + 1]), 9))]
        x3 == [x2 EXCEPT ![t[4] + 1] =
                  xor32(@, rotl32(add32(x2[t[3] + 1], x2[t[2] + 1]), 13))]
        x4 == [x3 EXCEPT ![t[1] + 1] =
                  xor32(@, rotl32(add32(x3[t[4] + 1], x3[t[3] + 1]), 18))]
    IN  x4

Columns == << <<0, 4, 8, 12>>, <<5, 9, 13, 1>>, <<10, 14, 2, 6>>, <<15, 3, 7, 11>> >>

Rows == << <<0, 1, 2, 3>>, <<5, 6, 7, 4>>, <<10, 11, 8, 9>>, <<15, 12, 13, 14>> >>

\* the quarter-rounds k, ..., 4 of a column step or a row step
RECURSIVE QuarterRounds(_, _, _)
QuarterRounds(xs, ts, k) ==
    IF Len(xs) # 16 \/ k > Len(ts) THEN xs
    ELSE QuarterRounds(QuarterRound(xs, ts[k]), ts, k + 1)

\* the column step followed by the row step
DoubleRound(xs) == QuarterRounds(QuarterRounds(xs, Columns, 1), Rows, 1)

\* n double-rounds
RECURSIVE DoubleRounds(_, _)
DoubleRounds(xs, n) ==
    IF Len(xs) # 16 \/ n = 0 THEN xs ELSE DoubleRounds(DoubleRound(xs), n - 1)

SpecSalsa(blk) ==
    LET w  == SpecDecode(blk)
        xs == DoubleRounds(w, 4)
    IN  SpecEncode([k \in 1..16 |-> add32(xs[k], w[k])] \o <<>>)

XorBytes(s, t) == [k \in 1..Len(s) |-> xor8[s[k]][t[k]]] \o <<>>

\* 64-byte sub-block k (from 0) of a block
Sub(blk, k) == SubSeq(blk, 64 * k + 1, 64 * k + 64)

\* T[0], ..., T[2r-1] with T[k] = Salsa20/8(T[k-1] XOR B[k]), T[-1] = B[2r-1]
RECURSIVE SpecChain(_, _, _, _)
SpecChain(blk, r_, k, prev) ==
    IF Len(prev) # 64 \/ k >= 2 * r_ THEN <<>>
    ELSE LET t == SpecSalsa(XorBytes(prev, Sub(blk, k)))
         IN  <<t>> \o SpecChain(blk, r_, k + 1, t)

\* T[from], T[from + 2], ... concatenated
RECURSIVE Every2nd(_, _)
Every2nd(ts, from) ==
    IF from > Len(ts) THEN <<>> ELSE ts[from] \o Every2nd(ts, from + 2)

\* BlockMix(B): the even-indexed T first, then the odd-indexed
SpecBlockMix(blk, r_) ==
    LET ts == SpecChain(blk, r_, 0, Sub(blk, 2 * r_ - 1))
    IN  Every2nd(ts, 1) \o Every2nd(ts, 2)

\* Integerify(X) AND (N-1), for N a power of two of at most 2^24
SpecIndex(blk, r_, N_) ==
    LET o == (2 * r_ - 1) * 64
    IN  (blk[o + 1] + 256 * blk[o + 2] + 65536 * blk[o + 3]) % N_

\* <<V[0], ..., V[N-1], X>> after the fill phase: V[k] = BlockMix^k(B)
RECURSIVE SpecFill(_, _, _, _)
SpecFill(blk, r_, N_, k) ==
    IF Len(blk) = 0 \/ k >= N_ THEN <<blk>>
    ELSE <<blk>> \o SpecFill(SpecBlockMix(blk, r_), r_, N_, k + 1)

\* one step of the mix phase
SpecMixStep(blk, vs, r_, N_) ==
    SpecBlockMix(XorBytes(blk, vs[SpecIndex(blk, r_, N_) + 1]), r_)

RECURSIVE SpecMix(_, _, _, _, _)
SpecMix(blk, vs, r_, N_, k) ==
    IF Len(blk) = 0 \/ k >= N_ THEN blk
    ELSE SpecMix(SpecMixStep(blk, vs, r_, N_), vs, r_, N_, k + 1)

SpecSMix(blk, r_, N_) ==
    LET f == SpecFill(blk, r_, N_, 0)
    IN  SpecMix(f[N_ + 1], f, r_, N_, 0)

\* block k (from 0) of 128*r bytes of a buffer
Block(buf, k, r_) == SubSeq(buf, k * 128 * r_ + 1, (k + 1) * 128 * r_)

\* the blocks k, ..., p-1 of buf, each replaced by its SMix
RECURSIVE SpecB(_, _, _, _, _)
SpecB(buf, k, r_, N_, p_) ==
    IF k >= p_ THEN <<>>
    ELSE SpecSMix(Block(buf, k, r_), r_, N_) \o SpecB(buf, k + 1, r_, N_, p_)

IsPowerOfTwo(n) == \E k \in 0..30 : n = 2 ^ k

\* the call has returned an error
Failed == pc = "return" /\ err # ""

\* the call has returned a key
Returned == pc = "return" /\ err = ""

\* the parameters passed both ifs of Key
Accepted == pc \notin {"Key", "divideByZero"} /\ ~Failed

(***************************************************************************)
(* Exact products for the size bounds: twelve base-256 digits.             *)
(***************************************************************************)
wide(n) == digits(n, 12)

times(a_, b_) == mulDigits(a_, b_, 12, 0, 0)

atMost(a_, b_) == geDigits(b_, a_, 12)

\* r*p < 2^30, and 256*r, 128*r*N and p*128*r are at most 2^31 - 1
SizesFit(N_, r_, p_) ==
    /\ ~atMost(wide(1073741824), times(wide(r_), wide(p_)))
    /\ atMost(times(wide(256), wide(r_)), wide(maxInt))
    /\ atMost(times(times(wide(128), wide(r_)), wide(N_)), wide(maxInt))
    /\ atMost(times(times(wide(p_), wide(128)), wide(r_)), wide(maxInt))

textBadN == "scrypt: N must be > 1 and a power of 2"

textTooLarge == "scrypt: parameters are too large"

(***************************************************************************)
(* The claims.                                                             *)
(***************************************************************************)

\* C1: once Key has taken its decision, every N that is <= 1 or not a power
\* of two has made it return a nil key and the error "N must be > 1 and a
\* power of 2", in every variant.
C1_BadNRejected ==
    (pc # "Key" /\ (N <= 1 \/ ~IsPowerOfTwo(N)))
        => (pc = "return" /\ key = nil /\ err = textBadN)

\* C2: for N >= 2 a power of two, r >= 1 and p >= 1, when Key has taken its
\* decision (and again when it has returned): parameters that passed
\* validation satisfy r*p < 2^30 and 256*r, 128*r*N, p*128*r <= 2^31 - 1, and
\* parameters that violate one of these bounds were rejected with a nil key
\* and the error "parameters are too large".
C2_SizesFit ==
    (pc \in {"alloc", "return", "divideByZero"}
        /\ N >= 2 /\ IsPowerOfTwo(N) /\ r >= 1 /\ p >= 1)
        => /\ Accepted => SizesFit(N, r, p)
           /\ ~SizesFit(N, r, p)
                => (pc = "return" /\ key = nil /\ err = textTooLarge)

\* C2 witness: parameters at the limit were accepted, and the parameters
\* N = 2, r = 2^28, p = 4 are among the inputs.
C2_Witness ==
    pc = "alloc" /\ N = 2 /\ r = 8388607 /\ p = 1 /\ SizesFit(N, r, p)
    /\ <<2, 268435456, 4>> \in Params

\* C3: once Key has taken its decision on a call with r <= 0 or p <= 0, it
\* has returned an error with a nil key; it has not failed in another way.
C3_NonPositiveRejected ==
    (pc # "Key" /\ (r <= 0 \/ p <= 0)) => (Failed /\ key = nil)

\* the decision the call took, as the state shows it
Decision ==
    CASE Failed /\ err = textBadN     -> "errN"
      [] Failed /\ err = textTooLarge -> "errLarge"
      [] pc = "divideByZero"          -> "divideByZero"
      [] OTHER                        -> "alloc"

\* C4: when Key has returned an error, nothing is allocated, pbkdf2.Key and
\* smix were not called and the key is nil; and the decision of Key is the
\* same for every password, salt and keyLen with the same N, r, p.
C4_ErrorBeforeWork ==
    /\ Failed => /\ xy = <<>> /\ v = <<>> /\ b = <<>>
                 /\ calls = <<>> /\ vlog = <<>> /\ B0 = <<>>
                 /\ key = nil
    /\ pc \in {"alloc", "return", "divideByZero"} =>
         \A c \in Creds, k \in KeyLens :
             validate(variant, c[1], c[2], N, r, p, k) = Decision

C4_Witness == Failed /\ err = textTooLarge /\ password # <<>> /\ keyLen > 0 /\ r > 1

\* C5: when Key has returned without error, the key is not nil, has exactly
\* keyLen bytes, and is the result of the second call of pbkdf2.Key, made
\* with the password, iterations 1, length keyLen and, as salt, the whole
\* buffer b of p*128*r bytes in which every block is the SMix of the block
\* the first call of pbkdf2.Key produced; an accepted call never panics.
C5_KeyResult ==
    /\ Returned =>
         /\ key = slice(pbkdf2Key(password, b, 1, keyLen))
         /\ Len(key.bytes) = keyLen
         /\ calls = << [password |-> password, salt |-> salt, iter |-> 1,
                        keyLen |-> p * 128 * r],
                       [password |-> password, salt |-> b, iter |-> 1,
                        keyLen |-> keyLen] >>
         /\ Len(b) = p * 128 * r
         /\ b = SpecB(B0, 0, r, N, p)
    /\ pc # "outOfRange"

C5_Witness ==
    Returned /\ keyLen = MaxKeyLen /\ p = 2 /\ r = 2 /\ password # <<>> /\ salt # <<>>
    /\ b # B0

\* the orders in which the blocks 0..n-1 can be taken
Orders(n) ==
    {o \in [1..n -> 0..(n - 1)] : \A j, k \in 1..n : j # k => o[j] # o[k]}

\* b after smix has run over the blocks in the order o, from the step k on,
\* with the scratch buffers v_ and xy_ reused from one pass to the next
RECURSIVE InOrder(_, _, _, _, _, _, _, _)
InOrder(variant_, o, k, buf, r_, N_, v_, xy_) ==
    IF Len(buf) = 0 \/ k > Len(o) THEN buf
    ELSE LET s == smix(variant_, buf, keyBlock(o[k], r_), r_, N_, v_, xy_)
         IN  InOrder(variant_, o, k + 1, s.b, r_, N_, s.v, s.xy)

\* C6: between the passes of Key, every block already mixed holds what smix
\* makes of that block alone, started from fresh scratch buffers, and every
\* other block is as pbkdf2.Key left it; and when Key has returned, running
\* the p passes in any order, reusing v and xy, gives the same b.
C6_PassesIndependent ==
    /\ pc = "loop" =>
         \A k \in 0..(p - 1) :
             Block(b, k, r) =
                 IF k < i
                 THEN Block(smix(variant, B0, keyBlock(k, r), r, N,
                                 make(128 * r * N), make(256 * r)).b, k, r)
                 ELSE Block(B0, k, r)
    /\ Returned =>
         \A o \in Orders(p) :
             InOrder(variant, o, 1, B0, r, N, make(128 * r * N), make(256 * r)) = b

C6_Witness ==
    Returned /\ p = 2 /\ N = 4 /\ Block(b, 0, r) # Block(b, 1, r) /\ b # B0
    /\ Cardinality(Orders(p)) = 2

\* <<"w", 0>>, ..., <<"w", n-1>>
Writes(n) == [k \in 1..n |-> <<"w", k - 1>>] \o <<>>

\* C7: in each pass of smix: the accesses to V are the writes of V[0], ...,
\* V[N-1] in this order, each once, followed by reads only, N of them when
\* the pass ends; when the fill phase has ended, and still when the mix
\* phase has ended, V[k] = BlockMix^k(B) for the input block B, and X =
\* BlockMix^N(B) when the fill phase has ended; every step of the mix phase
\* replaces X by BlockMix(X XOR V[Integerify(X) AND (N-1)]); and when the pass
\* has ended the block of b holds X.
C7_SmixPhases ==
    /\ pc \in {"fill", "mix", "blockMix"} =>
         /\ SubSeq(vlog, 1, min(Len(vlog), N)) = Writes(min(Len(vlog), N))
         /\ (\A k \in (N + 1)..Len(vlog) : vlog[k][1] = "r" /\ vlog[k][2] \in 0..(N - 1))
         /\ Len(vlog) <= 2 * N
         /\ (pc = "fill" \/ (pc = "blockMix" /\ ret = "fill")) => Len(vlog) <= N
         /\ (pc = "mix" \/ (pc = "blockMix" /\ ret = "mix")) => Len(vlog) >= N
    /\ (pc = "mix" /\ si \in {0, N}) =>
         LET f == SpecFill(Block(b, i, r), r, N, 0)
         IN  /\ (\A k \in 0..(N - 1) : Block(v, k, r) = f[k + 1])
             /\ si = 0 => X(xy, r) = f[N + 1]
    /\ (pc = "mix" /\ si > 0) =>
         /\ X(xy, r) = SpecBlockMix(
                          XorBytes(xIn, Block(v, SpecIndex(xIn, r, N), r)), r)
         /\ vlog[Len(vlog)] = <<"r", SpecIndex(xIn, r, N)>>
         /\ Len(vlog) = N + si
    /\ (pc = "loop" /\ i > 0) =>
         /\ Block(b, i - 1, r) = X(xy, r)
         /\ Len(vlog) = 2 * N

C7_Witness ==
    pc = "mix" /\ si = N /\ N = 4 /\ r = 1
    /\ (\E k \in 1..Len(vlog) : vlog[k][1] = "r" /\ vlog[k][2] > 0)
    /\ (\E k \in 1..Len(vlog) : vlog[k] = <<"r", 0>>)

\* C8: when blockMix returns, X holds the even-then-odd permutation of the
\* Salsa chain over the X it was entered with, whatever Y held before.
C8_BlockMix ==
    (pc \in {"fill", "mix"} /\ si > 0) =>
        /\ X(xy, r) = SpecBlockMix(bmIn, r)
        /\ LET y == [k \in 1..(128 * r) |-> 255] \o <<>>
           IN  X(blockMix(variant, bmIn \o y, yOffset(r), r), r) = X(xy, r)

C8_Witness ==
    pc = "fill" /\ si = 1 /\ r = 2 /\ i = 1
    /\ Sub(X(xy, r), 1) # Sub(X(xy, r), 2)
    /\ SubSeq(xy, 128 * r + 1, 256 * r) # make(128 * r)

\* C9: after every call of salsa, in each variant, x is the Salsa20/8 of the
\* argument; and encoding the sixteen words of x and decoding them again, as
\* each variant does it, gives the same words.
C9_Salsa ==
    (pc = "blockMix" /\ bi > 0) =>
        /\ x = SpecSalsa(salsaIn)
        /\ \A vr \in Variants : salsa(vr, salsaIn) = x
        /\ LET ws == SpecDecode(x)
           IN  /\ SpecDecode(SpecEncode(ws)) = ws
               /\ \A k \in 1..16 :
                      /\ word(bytes(ws[k]), 0) = ws[k]
                      /\ Uint32(PutUint32(ws[k]), 0) = ws[k]

C9_Witness ==
    pc = "blockMix" /\ bi = 2 * r /\ variant = "rot" /\ r = 2
    /\ x # salsaIn /\ salsaIn # make(64)

\* the pass of Key that made the last step (Key counts i up as smix returns)
Pass == IF pc = "loop" THEN i - 1 ELSE i

\* the byte range of an access lies in its region
InRegion(a) ==
    CASE a.view = "X" -> 0 <= a.lo /\ a.hi <= 128 * r
      [] a.view = "Y" -> 128 * r <= a.lo /\ a.hi <= 256 * r
      [] a.view = "V" -> 0 <= a.lo /\ a.hi <= 128 * r * N
      [] a.view = "B" -> Pass * 128 * r <= a.lo /\ a.hi <= (Pass + 1) * 128 * r
                         /\ a.hi <= p * 128 * r

\* C10: in an accepted call no access leaves its buffer: the buffers have
\* the sizes 256*r, 128*r*N and p*128*r; every step touches X only inside
\* xy[0, 128*r), Y only inside xy[128*r, 256*r), V only inside v, and b only
\* inside the block of the current pass; V is read at [j*128*r, (j+1)*128*r)
\* for a j in 0..N-1; integerify reads the 8 bytes at (2r-1)*64 of X; and no
\* step panics.
C10_InBounds ==
    /\ pc # "outOfRange"
    /\ pc \in {"loop", "fill", "mix", "blockMix"} =>
         /\ Len(xy) = 256 * r /\ Len(v) = 128 * r * N /\ Len(b) = p * 128 * r
         /\ pc # "loop" => i \in 0..(p - 1)
    /\ \A a \in acc :
         /\ a.lo < a.hi
         /\ InRegion(a)
         /\ (a.view = "V" /\ a.op = "r") =>
                \E j \in 0..(N - 1) : a.lo = j * 128 * r /\ a.hi = (j + 1) * 128 * r
         /\ a.op = "integerify" =>
                a.view = "X" /\ a.lo = (2 * r - 1) * 64 /\ a.hi = a.lo + 8

C10_Witness ==
    pc = "blockMix" /\ bi = 0 /\ ret = "mix" /\ i = 1 /\ N = 4 /\ r = 1
    /\ (\E a \in acc : a.op = "integerify")
    /\ (\E a \in acc : a.view = "V" /\ a.lo > 0)

====
